---- MODULE Spec2Model ----
(***************************************************************************)
(* Model of the DeepSeek -> MLX weight remapper                            *)
(* (remap_weights_for_mlx_unified.py) and of the presence verifier         *)
(* (verify_mlx_weights.py).                                                *)
(*                                                                         *)
(* Keys are dotted paths, modelled as the sequence of their components     *)
(* ("h.0.ln_1.weight" is <<"h", "0", "ln_1", "weight">>), so that          *)
(* k.split('.'), k.startswith('h.'), int() and isdigit() are computed as   *)
(* the code computes them.                                                 *)
(*                                                                         *)
(* Arrays are numpy arrays: a shape and the elements in row-major (C)      *)
(* order.  The element stored at flat offset p of the source tensor k is   *)
(* the symbol [src |-> k, pos |-> p]; the remapper only moves elements,    *)
(* never computes with them, so a destination element equal to that symbol *)
(* is a copy of exactly that source element.  Zero and One are the         *)
(* elements np.zeros / np.pad and np.ones produce.                         *)
(*                                                                         *)
(* The fixed dimensions of the program (8 heads, head_dim 64, nope 32,     *)
(* rope 32, kv rank 128, q rank 192, fallbacks 512 / 768) are scaled down, *)
(* keeping their order (nope < head_dim, routed fallback < shared one).    *)
(***************************************************************************)
EXTENDS Integers, Sequences, FiniteSets, TLC

VARIABLES
    pc,             \* position of the remap process
    input_file,     \* the file at input_path: "missing" | "unreadable" | "ok"
    disk_ckpt,      \* the checkpoint stored at input_path: key -> shape
    state_dict,     \* torch.load's result: key -> shape
    num_layers, num_experts,
    routed_size, shared_size, unified_size,
    mlx_weights,    \* destination mapping: key -> array
    mapped_count,
    weights_file,   \* weights.safetensors: "absent" | "written"
    config,         \* config.json
    metadata_file,  \* weight_mapping_info.json: "absent" | "written"
    metadata,       \* the record written to metadata_file
    error,          \* the exception that ended the run, or "none"
    exit_code,      \* process exit status, -1 while running
    verify_state,   \* "idle" | "True" | "False" | "error"
    missing,        \* verify_weights' missing list
    pad_pc, pad_arg, pad_target, pad_result   \* a stand-alone call of pad_weight

vars == << pc, input_file, disk_ckpt, state_dict, num_layers, num_experts,
           routed_size, shared_size, unified_size, mlx_weights, mapped_count,
           weights_file, config, metadata_file, metadata, error, exit_code,
           verify_state, missing, pad_pc, pad_arg, pad_target, pad_result >>

remap_vars == << pc, input_file, disk_ckpt, state_dict, num_layers, num_experts,
                 routed_size, shared_size, unified_size, mlx_weights, mapped_count,
                 weights_file, config, metadata_file, metadata, error, exit_code,
                 verify_state, missing >>

pad_vars == << pad_pc, pad_arg, pad_target, pad_result >>

----------------------------------------------------------------------------
(* Bounds of the model *)

MaxLayers == 2
MaxExperts == 2
MaxInter == 3
MaxMissing == 1
HiddenSize == 2
VocabSize == 1
MaxDim == 3

(* Program constants, scaled down *)

RoutedSizeDefault == 1
SharedSizeDefault == 2
QLoraRank == 3
KvLoraRank == 2
NumHeads == 2
HeadDim == 2
NopeDim == 1
RopeDim == 1

----------------------------------------------------------------------------
(* Strings of digits: f"{i}", int(s), s.isdigit() *)

Digits == <<"0", "1", "2", "3", "4", "5", "6", "7", "8", "9">>

Str(i) == Digits[i + 1]

IsDigit(s) == \E i \in 1..Len(Digits) : Digits[i] = s

ToInt(s) == CHOOSE i \in 0..(Len(Digits) - 1) : Digits[i + 1] = s

Max(S) == CHOOSE x \in S : \A y \in S : y <= x

Maximum(a, b) == IF a >= b THEN a ELSE b

Minimum(a, b) == IF a <= b THEN a ELSE b

----------------------------------------------------------------------------
(* numpy arrays *)

Zero == [src |-> <<"zeros">>, pos |-> 0]

One == [src |-> <<"ones">>, pos |-> 0]

RECURSIVE Size(_)
Size(shape) == IF shape = <<>> THEN 1 ELSE Head(shape) * Size(Tail(shape))

\* state_dict[k].numpy(): the source tensor k, of the shape the checkpoint stores
Tensor(sd, k) ==
    [shape |-> sd[k], data |-> [p \in 1..Size(sd[k]) |-> [src |-> k, pos |-> p - 1]]]

np_ones(n) == [shape |-> <<n>>, data |-> [p \in 1..n |-> One]]

np_zeros(n) == [shape |-> <<n>>, data |-> [p \in 1..n |-> Zero]]

\* element [i] of a rank-1 array, [r, c] of a rank-2 array, [h, r, c] of a rank-3 array
At1(a, i) == a.data[i + 1]

At2(a, r, c) == a.data[r * a.shape[2] + c + 1]

At3(a, h, r, c) == a.data[(h * a.shape[2] + r) * a.shape[3] + c + 1]

\* np.pad(a, ((0, po), (0, pi)), mode='constant') raises on a negative width
np_pad2_raises(po, pi) == po < 0 \/ pi < 0

np_pad2(a, po, pi) ==
    LET r == a.shape[1]
        c == a.shape[2]
        nc == c + pi
    IN  [shape |-> <<r + po, nc>>,
         data |-> [p \in 1..((r + po) * nc) |->
                     IF ((p - 1) \div nc) < r /\ ((p - 1) % nc) < c
                     THEN At2(a, (p - 1) \div nc, (p - 1) % nc)
                     ELSE Zero]]

np_pad1(a, amt) ==
    [shape |-> <<a.shape[1] + amt>>,
     data |-> [p \in 1..(a.shape[1] + amt) |->
                 IF p - 1 < a.shape[1] THEN At1(a, p - 1) ELSE Zero]]

Ok(a) == [err |-> "none", val |-> a]

Raise(e) == [err |-> e, val |-> [shape |-> <<>>, data |-> <<>>]]

pad_weight(weight_np, target_shape) ==
    LET shape == weight_np.shape IN
    IF shape = target_shape THEN Ok(weight_np)
    ELSE IF Len(shape) = 2 THEN
        LET pad_out == target_shape[1] - shape[1]
            pad_in == target_shape[2] - shape[2]
        IN  IF pad_out > 0 \/ pad_in > 0
            THEN IF np_pad2_raises(pad_out, pad_in)
                 THEN Raise("ValueError")
                 ELSE Ok(np_pad2(weight_np, pad_out, pad_in))
            ELSE Ok(weight_np)
    ELSE IF Len(shape) = 1 THEN
        LET pad_amt == target_shape[1] - shape[1]
        IN  IF pad_amt > 0 THEN Ok(np_pad1(weight_np, pad_amt)) ELSE Ok(weight_np)
    ELSE Ok(weight_np)

\* a[:n, :] of a rank-2 array
slice_rows(a, n) ==
    LET r == Minimum(n, a.shape[1]) IN
    [shape |-> <<r, a.shape[2]>>, data |-> SubSeq(a.data, 1, r * a.shape[2])]

\* np.concatenate([a, b], axis=0) of rank-2 arrays
np_concatenate0_raises(a, b) == a.shape[2] # b.shape[2]

np_concatenate0(a, b) ==
    [shape |-> <<a.shape[1] + b.shape[1], a.shape[2]>>, data |-> a.data \o b.data]

\* a.reshape(d1, d2, -1) and a.reshape(-1, d2): the elements keep their C order
reshape3_raises(a, d1, d2) == Size(a.shape) % (d1 * d2) # 0

reshape3(a, d1, d2) ==
    [shape |-> <<d1, d2, Size(a.shape) \div (d1 * d2)>>, data |-> a.data]

reshape2_raises(a, d2) == Size(a.shape) % d2 # 0

reshape2(a, d2) == [shape |-> <<Size(a.shape) \div d2, d2>>, data |-> a.data]

\* a[:, :n, :] of a rank-3 array
slice_axis1(a, n) ==
    LET d1 == a.shape[1]
        d2 == Minimum(n, a.shape[2])
        d3 == a.shape[3]
    IN  [shape |-> <<d1, d2, d3>>,
         data |-> [p \in 1..(d1 * d2 * d3) |->
                     At3(a, (p - 1) \div (d2 * d3), ((p - 1) \div d3) % d2, (p - 1) % d3)]]

\* np.concatenate([a, b], axis=1) of rank-3 arrays
np_concatenate1_raises(a, b) == a.shape[1] # b.shape[1] \/ a.shape[3] # b.shape[3]

np_concatenate1(a, b) ==
    LET d1 == a.shape[1]
        d2 == a.shape[2] + b.shape[2]
        d3 == a.shape[3]
    IN  [shape |-> <<d1, d2, d3>>,
         data |-> [p \in 1..(d1 * d2 * d3) |->
                     LET h == (p - 1) \div (d2 * d3)
                         r == ((p - 1) \div d3) % d2
                         c == (p - 1) % d3
                     IN  IF r < a.shape[2] THEN At3(a, h, r, c)
                         ELSE At3(b, h, r - a.shape[2], c)]]

\* np.stack(list): every array of the list must have the shape of the first
np_stack_raises(list) == \E j \in 1..Len(list) : list[j].shape # list[1].shape

RECURSIVE flat(_)
flat(list) == IF list = <<>> THEN <<>> ELSE Head(list).data \o flat(Tail(list))

np_stack(list) == [shape |-> <<Len(list)>> \o list[1].shape, data |-> flat(list)]

----------------------------------------------------------------------------
(* Keys of the source and of the destination checkpoint *)

wte == <<"wte", "weight">>

ln_f == <<"ln_f", "weight">>

lm_head == <<"lm_head", "weight">>

prefix_old(i) == <<"h", Str(i)>>

prefix_new(i) == <<"model", "layers", Str(i)>>

expert_key(i, j, proj) == prefix_old(i) \o <<"mlp", "experts", Str(j), proj, "weight">>

shared_key(i, proj) == prefix_old(i) \o <<"mlp", "shared_expert", proj, "weight">>

Projs == {"gate_proj", "up_proj", "down_proj"}

Put(d, k, v) == [x \in DOMAIN d \cup {k} |-> IF x = k THEN v ELSE d[x]]

----------------------------------------------------------------------------
(* remap_weights, step [3/5]: the destination mapping.  An accumulator     *)
(* [err, w, n] carries the exception raised so far (or "none"),            *)
(* mlx_weights and mapped_count through the blocks of the loop body.       *)

\* mutant of copy: the lookup is not guarded by a presence check
copy_unguarded(acc, sd, old_key, new_key) ==
    IF acc.err # "none" THEN acc
    ELSE IF old_key \notin DOMAIN sd THEN [acc EXCEPT !.err = "KeyError"]
    ELSE [acc EXCEPT !.w = Put(@, new_key, Tensor(sd, old_key)), !.n = @ + 1]

copy(acc, sd, old_key, new_key) ==
    IF acc.err = "none" /\ old_key \in DOMAIN sd
    THEN [acc EXCEPT !.w = Put(@, new_key, Tensor(sd, old_key)), !.n = @ + 1]
    ELSE acc

synthesize(acc, new_key, array) ==
    IF acc.err = "none"
    THEN [acc EXCEPT !.w = Put(@, new_key, array), !.n = @ + 1]
    ELSE acc

fail(acc, e) == [acc EXCEPT !.err = e]

layer_norms(acc, sd, i) ==
    copy(copy(acc, sd, prefix_old(i) \o <<"ln_1", "weight">>,
                       prefix_new(i) \o <<"input_layernorm", "weight">>),
         sd, prefix_old(i) \o <<"ln_2", "weight">>,
             prefix_new(i) \o <<"post_attention_layernorm", "weight">>)

simple_attn_mappings(acc, sd, i) ==
    copy(copy(copy(acc, sd, prefix_old(i) \o <<"attn", "q_proj", "weight">>,
                            prefix_new(i) \o <<"self_attn", "q_a_proj", "weight">>),
              sd, prefix_old(i) \o <<"attn", "q_decompress", "weight">>,
                  prefix_new(i) \o <<"self_attn", "q_b_proj", "weight">>),
         sd, prefix_old(i) \o <<"attn", "kv_norm", "weight">>,
             prefix_new(i) \o <<"self_attn", "kv_a_layernorm", "weight">>)

\* mutant of q_a_layernorm: the tensor the source lacks is not synthesized
q_a_layernorm_skipped(acc, i) == acc

q_a_layernorm(acc, i) ==
    synthesize(acc, prefix_new(i) \o <<"self_attn", "q_a_layernorm", "weight">>,
               np_ones(QLoraRank))

kv_a_proj_with_mqa(acc, sd, i) ==
    LET kv_proj_key == prefix_old(i) \o <<"attn", "kv_proj", "weight">>
        k_rope_proj_key == prefix_old(i) \o <<"attn", "k_rope_proj", "weight">>
    IN  IF acc.err = "none" /\ kv_proj_key \in DOMAIN sd /\ k_rope_proj_key \in DOMAIN sd
        THEN LET kv_proj == Tensor(sd, kv_proj_key)
                 k_rope_head == slice_rows(Tensor(sd, k_rope_proj_key), RopeDim)
             IN  IF np_concatenate0_raises(kv_proj, k_rope_head)
                 THEN fail(acc, "ValueError")
                 ELSE synthesize(acc,
                         prefix_new(i) \o <<"self_attn", "kv_a_proj_with_mqa", "weight">>,
                         np_concatenate0(kv_proj, k_rope_head))
        ELSE acc

\* mutant of kv_b_combined: all key rows first, then all value rows (no per-head split)
kv_b_stacked(k_decompress, v_decompress) ==
    Ok(np_concatenate0(slice_rows(k_decompress, NumHeads * NopeDim), v_decompress))

\* lines 162-175: [k_nope, v] per head, heads in order
kv_b_combined(k_decompress, v_decompress) ==
    IF reshape3_raises(k_decompress, NumHeads, HeadDim)
       \/ reshape3_raises(v_decompress, NumHeads, HeadDim)
    THEN Raise("ValueError")
    ELSE LET k_per_head == reshape3(k_decompress, NumHeads, HeadDim)
             v_per_head == reshape3(v_decompress, NumHeads, HeadDim)
             k_nope == slice_axis1(k_per_head, NopeDim)
         IN  IF np_concatenate1_raises(k_nope, v_per_head)
             THEN Raise("ValueError")
             ELSE LET combined == np_concatenate1(k_nope, v_per_head)
                  IN  IF reshape2_raises(combined, KvLoraRank)
                      THEN Raise("ValueError")
                      ELSE Ok(reshape2(combined, KvLoraRank))

kv_b_proj(acc, sd, i) ==
    LET k_decompress_key == prefix_old(i) \o <<"attn", "k_decompress", "weight">>
        v_decompress_key == prefix_old(i) \o <<"attn", "v_decompress", "weight">>
    IN  IF acc.err = "none" /\ k_decompress_key \in DOMAIN sd
                            /\ v_decompress_key \in DOMAIN sd
        THEN LET r == kv_b_combined(Tensor(sd, k_decompress_key),
                                    Tensor(sd, v_decompress_key))
             IN  IF r.err # "none" THEN fail(acc, r.err)
                 ELSE synthesize(acc,
                         prefix_new(i) \o <<"self_attn", "kv_b_proj", "weight">>, r.val)
        ELSE acc

o_proj(acc, sd, i) ==
    copy(acc, sd, prefix_old(i) \o <<"attn", "o_proj", "weight">>,
                  prefix_new(i) \o <<"self_attn", "o_proj", "weight">>)

router(acc, sd, i) ==
    copy(acc, sd, prefix_old(i) \o <<"mlp", "router", "weight">>,
                  prefix_new(i) \o <<"mlp", "gate", "weight">>)

e_score_correction_bias(acc, i, ne) ==
    synthesize(acc, prefix_new(i) \o <<"mlp", "gate", "e_score_correction_bias">>,
               np_zeros(ne))

\* lines 206-225, for one projection: the padded weights of the experts
\* j, ..., ne - 1 whose key is present, in order (each the result of pad_weight)
RECURSIVE proj_experts(_, _, _, _, _, _)
proj_experts(sd, i, j, ne, proj, target) ==
    IF j >= ne THEN <<>>
    ELSE IF expert_key(i, j, proj) \in DOMAIN sd
         THEN <<pad_weight(Tensor(sd, expert_key(i, j, proj)), target)>>
              \o proj_experts(sd, i, j + 1, ne, proj, target)
         ELSE proj_experts(sd, i, j + 1, ne, proj, target)

\* lines 228-238, for one projection: np.stack of a non-empty list
stack_experts(acc, i, proj, padded) ==
    LET list == [j \in 1..Len(padded) |-> padded[j].val] IN
    IF acc.err # "none" \/ list = <<>> THEN acc
    ELSE IF np_stack_raises(list) THEN fail(acc, "ValueError")
    ELSE synthesize(acc, prefix_new(i) \o <<"mlp", "switch_mlp", proj, "weight">>,
                    np_stack(list))

experts(acc, sd, i, ne, us) ==
    IF acc.err # "none" THEN acc
    ELSE IF wte \notin DOMAIN sd THEN fail(acc, "KeyError")
    ELSE LET hidden_size == sd[wte][2]
             gate_proj_experts == proj_experts(sd, i, 0, ne, "gate_proj", <<us, hidden_size>>)
             up_proj_experts == proj_experts(sd, i, 0, ne, "up_proj", <<us, hidden_size>>)
             down_proj_experts == proj_experts(sd, i, 0, ne, "down_proj", <<hidden_size, us>>)
             all == gate_proj_experts \o up_proj_experts \o down_proj_experts
         IN  IF \E x \in 1..Len(all) : all[x].err # "none"
             THEN fail(acc, "ValueError")
             ELSE stack_experts(
                    stack_experts(
                      stack_experts(acc, i, "gate_proj", gate_proj_experts),
                      i, "up_proj", up_proj_experts),
                    i, "down_proj", down_proj_experts)

shared_expert(acc, sd, i) ==
    IF acc.err = "none" /\ shared_key(i, "gate_proj") \in DOMAIN sd
    THEN IF shared_key(i, "up_proj") \notin DOMAIN sd
            \/ shared_key(i, "down_proj") \notin DOMAIN sd
         THEN fail(acc, "KeyError")
         ELSE LET new(proj) == prefix_new(i) \o <<"mlp", "shared_experts", proj, "weight">>
                  w1 == Put(acc.w, new("gate_proj"), Tensor(sd, shared_key(i, "gate_proj")))
                  w2 == Put(w1, new("up_proj"), Tensor(sd, shared_key(i, "up_proj")))
                  w3 == Put(w2, new("down_proj"), Tensor(sd, shared_key(i, "down_proj")))
              IN  [acc EXCEPT !.w = w3, !.n = @ + 3]
    ELSE acc

\* lines 96-248: one iteration of the loop over the layers
remap_layer(acc, sd, i, ne, us) ==
    shared_expert(
      experts(
        e_score_correction_bias(
          router(
            o_proj(
              kv_b_proj(
                kv_a_proj_with_mqa(
                  q_a_layernorm(
                    simple_attn_mappings(
                      layer_norms(acc, sd, i),
                      sd, i),
                    i),
                  sd, i),
                sd, i),
              sd, i),
            sd, i),
          i, ne),
        sd, i, ne, us),
      sd, i)

RECURSIVE remap_layers(_, _, _, _, _, _)
remap_layers(acc, sd, i, nl, ne, us) ==
    IF i >= nl \/ acc.err # "none" THEN acc
    ELSE remap_layers(remap_layer(acc, sd, i, ne, us), sd, i + 1, nl, ne, us)

\* lines 264-267: the mapping summary divides by len(state_dict)
mapping_summary(acc, sd) ==
    IF acc.err = "none" /\ DOMAIN sd = {} THEN fail(acc, "ZeroDivisionError") ELSE acc

\* lines 86-267
remap(sd, nl, ne, us) ==
    mapping_summary(
      copy(
        copy(
          remap_layers(
            copy([err |-> "none", w |-> <<>>, n |-> 0], sd, wte,
                 <<"model", "embed_tokens", "weight">>),
            sd, 0, nl, ne, us),
          sd, ln_f, <<"model", "norm", "weight">>),
        sd, lm_head, lm_head),
      sd)

----------------------------------------------------------------------------
(* remap_weights, steps [1/5] and [2/5]: discovery *)

layer_keys(sd) == {k \in DOMAIN sd : Len(k) >= 2 /\ k[1] = "h"}

detect_num_layers(sd) ==
    IF layer_keys(sd) # {} THEN Max({ToInt(k[2]) : k \in layer_keys(sd)}) + 1 ELSE 0

expert_keys(sd) ==
    {k \in DOMAIN sd : /\ \E p \in 1..(Len(k) - 2) : k[p] = "mlp" /\ k[p + 1] = "experts"
                       /\ Len(k) > 4
                       /\ IsDigit(k[5])}

detect_num_experts(sd) ==
    IF expert_keys(sd) # {} THEN Max({ToInt(k[5]) : k \in expert_keys(sd)}) + 1 ELSE 0

routed_expert_key == expert_key(0, 0, "gate_proj")

shared_expert_key == shared_key(0, "gate_proj")

detect_routed_size(sd) ==
    IF routed_expert_key \in DOMAIN sd THEN sd[routed_expert_key][1] ELSE RoutedSizeDefault

detect_shared_size(sd) ==
    IF shared_expert_key \in DOMAIN sd THEN sd[shared_expert_key][1] ELSE SharedSizeDefault

----------------------------------------------------------------------------
(* verify_weights: the presence catalogue *)

layer_required(i, n_shared_experts) ==
    LET prefix == prefix_new(i) IN
    << prefix \o <<"input_layernorm", "weight">>,
       prefix \o <<"post_attention_layernorm", "weight">>,
       prefix \o <<"self_attn", "q_a_proj", "weight">>,
       prefix \o <<"self_attn", "q_a_layernorm", "weight">>,
       prefix \o <<"self_attn", "q_b_proj", "weight">>,
       prefix \o <<"self_attn", "kv_a_proj_with_mqa", "weight">>,
       prefix \o <<"self_attn", "kv_a_layernorm", "weight">>,
       prefix \o <<"self_attn", "kv_b_proj", "weight">>,
       prefix \o <<"self_attn", "o_proj", "weight">>,
       prefix \o <<"mlp", "gate", "weight">>,
       prefix \o <<"mlp", "gate", "e_score_correction_bias">>,
       prefix \o <<"mlp", "switch_mlp", "gate_proj", "weight">>,
       prefix \o <<"mlp", "switch_mlp", "up_proj", "weight">>,
       prefix \o <<"mlp", "switch_mlp", "down_proj", "weight">> >>
    \o (IF n_shared_experts > 0
        THEN << prefix \o <<"mlp", "shared_experts", "gate_proj", "weight">>,
                prefix \o <<"mlp", "shared_experts", "up_proj", "weight">>,
                prefix \o <<"mlp", "shared_experts", "down_proj", "weight">> >>
        ELSE <<>>)

RECURSIVE layers_required(_, _, _)
layers_required(i, n, n_shared_experts) ==
    IF i >= n THEN <<>>
    ELSE layer_required(i, n_shared_experts) \o layers_required(i + 1, n, n_shared_experts)

required(cfg) ==
    << <<"model", "embed_tokens", "weight">> >>
    \o layers_required(0, cfg.num_hidden_layers, cfg.n_shared_experts)
    \o << <<"model", "norm", "weight">>, lm_head >>

RECURSIVE missing_of(_, _)
missing_of(req, weights) ==
    IF req = <<>> THEN <<>>
    ELSE (IF Head(req) \notin DOMAIN weights THEN <<Head(req)>> ELSE <<>>)
         \o missing_of(Tail(req), weights)

----------------------------------------------------------------------------
(* The checkpoints the remapper is run on: every source key of the         *)
(* catalogue for L layers, E[i] routed experts in layer i, routed experts  *)
(* of intermediate size R and shared experts of size S, less at most       *)
(* MaxMissing keys; and the checkpoint with no key at all.                 *)

layer_subs(ne) ==
    { <<"ln_1", "weight">>, <<"ln_2", "weight">>,
      <<"attn", "q_proj", "weight">>, <<"attn", "q_decompress", "weight">>,
      <<"attn", "kv_norm", "weight">>, <<"attn", "kv_proj", "weight">>,
      <<"attn", "k_rope_proj", "weight">>, <<"attn", "k_decompress", "weight">>,
      <<"attn", "v_decompress", "weight">>, <<"attn", "o_proj", "weight">>,
      <<"mlp", "router", "weight">> }
    \cup { <<"mlp", "experts", Str(j), proj, "weight">> : j \in 0..(ne - 1), proj \in Projs }
    \cup { <<"mlp", "shared_expert", proj, "weight">> : proj \in Projs }

source_keys(E) ==
    {wte, ln_f, lm_head}
    \cup UNION { { prefix_old(i - 1) \o sub : sub \in layer_subs(E[i]) } : i \in 1..Len(E) }

shape_of(k, E, R, S) ==
    LET name == k[Len(k) - 1]
        routed == Len(k) > 4 /\ k[4] = "experts"
    IN  CASE name \in {"wte", "lm_head"} -> <<VocabSize, HiddenSize>>
          [] name \in {"ln_1", "ln_2", "ln_f"} -> <<HiddenSize>>
          [] name = "q_proj" -> <<QLoraRank, HiddenSize>>
          [] name = "q_decompress" -> <<NumHeads * HeadDim, QLoraRank>>
          [] name = "kv_norm" -> <<KvLoraRank>>
          [] name = "kv_proj" -> <<KvLoraRank, HiddenSize>>
          [] name = "k_rope_proj" -> <<NumHeads * RopeDim, HiddenSize>>
          [] name \in {"k_decompress", "v_decompress"} -> <<NumHeads * HeadDim, KvLoraRank>>
          [] name = "o_proj" -> <<HiddenSize, NumHeads * HeadDim>>
          [] name = "router" -> <<E[ToInt(k[2]) + 1], HiddenSize>>
          [] name \in {"gate_proj", "up_proj"} -> <<IF routed THEN R ELSE S, HiddenSize>>
          [] name = "down_proj" -> <<HiddenSize, IF routed THEN R ELSE S>>

RECURSIVE subsets_up_to(_, _)
subsets_up_to(S, n) ==
    IF n = 0 THEN {{}}
    ELSE LET P == subsets_up_to(S, n - 1) IN P \cup { T \cup {x} : T \in P, x \in S }

complete_checkpoint(E, R, S) == [k \in source_keys(E) |-> shape_of(k, E, R, S)]

without(ckpt, absent) == [k \in DOMAIN ckpt \ absent |-> ckpt[k]]

Checkpoints ==
    { <<>> } \cup
    UNION { UNION { { without(complete_checkpoint(E, R, S), absent) :
                        absent \in subsets_up_to(source_keys(E), MaxMissing) } :
                    R \in 1..MaxInter, S \in 1..MaxInter } :
            E \in UNION { [1..L -> 1..MaxExperts] : L \in 0..MaxLayers } }

no_config == [status |-> "missing", num_hidden_layers |-> 0, n_shared_experts |-> 0,
              moe_intermediate_size |-> 0]

Configs ==
    { no_config, [no_config EXCEPT !.status = "corrupt"] } \cup
    { [status |-> "ok", num_hidden_layers |-> n, n_shared_experts |-> s,
       moe_intermediate_size |-> RoutedSizeDefault] :
         n \in 0..MaxLayers, s \in {0} }

no_metadata == [num_layers |-> 0, num_experts |-> 0, routed_intermediate_size |-> 0,
                shared_intermediate_size |-> 0, unified_intermediate_size |-> 0,
                total_weights |-> 0, padding_applied |-> FALSE]

----------------------------------------------------------------------------
(* A stand-alone call of pad_weight on an array of any rank up to 3 *)

Shapes(rank) == [1..rank -> 1..MaxDim]

PadArg(shape) ==
    [shape |-> shape, data |-> [p \in 1..Size(shape) |-> [src |-> <<"arg">>, pos |-> p - 1]]]

RemapIdle ==
    /\ pc = "idle"
    /\ input_file = FALSE
    /\ disk_ckpt = <<>>
    /\ state_dict = <<>>
    /\ num_layers = 0
    /\ num_experts = 0
    /\ routed_size = 0
    /\ shared_size = 0
    /\ unified_size = 0
    /\ mlx_weights = <<>>
    /\ mapped_count = 0
    /\ weights_file = "absent"
    /\ config = no_config
    /\ metadata_file = "absent"
    /\ metadata = no_metadata
    /\ error = "none"
    /\ exit_code = -1
    /\ verify_state = "idle"
    /\ missing = <<>>

PadIdle ==
    /\ pad_pc = "idle"
    /\ pad_arg = PadArg(<<>>)
    /\ pad_target = <<>>
    /\ pad_result = Ok(PadArg(<<>>))

PadInit ==
    /\ RemapIdle
    /\ pad_pc = "call"
    /\ \E rank \in 0..3 : \E s \in Shapes(rank), t \in Shapes(rank) :
          /\ pad_arg = PadArg(s)
          /\ pad_target = t
    /\ pad_result = Ok(PadArg(<<>>))

PadCall ==
    /\ pad_pc = "call"
    /\ pad_result' = pad_weight(pad_arg, pad_target)
    /\ pad_pc' = IF pad_result'.err = "none" THEN "returned" ELSE "raised"
    /\ UNCHANGED << pad_arg, pad_target >>
    /\ UNCHANGED remap_vars

PadNext == PadCall

PadSpec == PadInit /\ [][PadNext]_vars

----------------------------------------------------------------------------
(* The remap process (remap_weights under __main__'s try/except) and a     *)
(* later run of the verifier                                               *)

Init ==
    /\ PadIdle
    /\ pc = "start"
    /\ input_file \in {"missing", "unreadable", "ok"}
    /\ disk_ckpt \in (IF input_file = "ok" THEN Checkpoints ELSE { <<>> })
    /\ state_dict = <<>>
    /\ num_layers = 0
    /\ num_experts = 0
    /\ routed_size = 0
    /\ shared_size = 0
    /\ unified_size = 0
    /\ mlx_weights = <<>>
    /\ mapped_count = 0
    /\ weights_file = "absent"
    /\ metadata_file = "absent"
    /\ config \in Configs
    /\ metadata = no_metadata
    /\ error = "none"
    /\ exit_code = -1
    /\ verify_state = "idle"
    /\ missing = <<>>

\* mutant of Abort: the error is printed but the process exits with status 0
Abort_exit0(e) ==
    /\ error' = e
    /\ exit_code' = 0
    /\ pc' = "exited"

\* __main__'s except clause: print the error, sys.exit(1)
Abort(e) ==
    /\ error' = e
    /\ exit_code' = 1
    /\ pc' = "exited"

\* lines 48-54
Load ==
    /\ pc = "start"
    /\ IF input_file = "missing"
       THEN Abort("FileNotFoundError") /\ UNCHANGED state_dict
       ELSE IF input_file = "unreadable"
       THEN Abort("UnpicklingError") /\ UNCHANGED state_dict
       ELSE /\ state_dict' = disk_ckpt
            /\ pc' = "loaded"
            /\ UNCHANGED << error, exit_code >>
    /\ UNCHANGED << input_file, disk_ckpt, num_layers, num_experts, routed_size,
                    shared_size, unified_size, mlx_weights, mapped_count, weights_file,
                    config, metadata_file, metadata, verify_state, missing >>
    /\ UNCHANGED pad_vars

\* lines 56-82
Detect ==
    /\ pc = "loaded"
    /\ num_layers' = detect_num_layers(state_dict)
    /\ num_experts' = detect_num_experts(state_dict)
    /\ routed_size' = detect_routed_size(state_dict)
    /\ shared_size' = detect_shared_size(state_dict)
    /\ unified_size' = Maximum(routed_size', shared_size')
    /\ pc' = "detected"
    /\ UNCHANGED << input_file, disk_ckpt, state_dict, mlx_weights, mapped_count,
                    weights_file, config, metadata_file, metadata, error, exit_code,
                    verify_state, missing >>
    /\ UNCHANGED pad_vars

\* lines 84-267
Remap ==
    /\ pc = "detected"
    /\ LET r == remap(state_dict, num_layers, num_experts, unified_size) IN
       IF r.err # "none"
       THEN Abort(r.err) /\ UNCHANGED << mlx_weights, mapped_count >>
       ELSE /\ mlx_weights' = r.w
            /\ mapped_count' = r.n
            /\ pc' = "remapped"
            /\ UNCHANGED << error, exit_code >>
    /\ UNCHANGED << input_file, disk_ckpt, state_dict, num_layers, num_experts,
                    routed_size, shared_size, unified_size, weights_file, config,
                    metadata_file, metadata, verify_state, missing >>
    /\ UNCHANGED pad_vars

\* mutant of SaveWeights: the weights file is not written before the config update
SaveWeights_skipped ==
    /\ pc = "remapped"
    /\ pc' = "saved"
    /\ UNCHANGED << input_file, disk_ckpt, state_dict, num_layers, num_experts,
                    routed_size, shared_size, unified_size, mlx_weights, mapped_count,
                    weights_file, config, metadata_file, metadata, error, exit_code,
                    verify_state, missing >>
    /\ UNCHANGED pad_vars

\* lines 269-278
SaveWeights ==
    /\ pc = "remapped"
    /\ weights_file' = "written"
    /\ pc' = "saved"
    /\ UNCHANGED << input_file, disk_ckpt, state_dict, num_layers, num_experts,
                    routed_size, shared_size, unified_size, mlx_weights, mapped_count,
                    config, metadata_file, metadata, error, exit_code, verify_state,
                    missing >>
    /\ UNCHANGED pad_vars

\* lines 280-292
UpdateConfig ==
    /\ pc = "saved"
    /\ IF config.status = "missing"
       THEN Abort("FileNotFoundError") /\ UNCHANGED config
       ELSE IF config.status = "corrupt"
       THEN Abort("JSONDecodeError") /\ UNCHANGED config
       ELSE /\ config' = [config EXCEPT !.moe_intermediate_size = unified_size,
                                        !.n_shared_experts = 1]
            /\ pc' = "configured"
            /\ UNCHANGED << error, exit_code >>
    /\ UNCHANGED << input_file, disk_ckpt, state_dict, num_layers, num_experts,
                    routed_size, shared_size, unified_size, mlx_weights, mapped_count,
                    weights_file, metadata_file, metadata, verify_state, missing >>
    /\ UNCHANGED pad_vars

\* lines 294-318: the metadata file, then remap_weights returns and the script ends
SaveMetadata ==
    /\ pc = "configured"
    /\ metadata' = [num_layers |-> num_layers,
                    num_experts |-> num_experts,
                    routed_intermediate_size |-> routed_size,
                    shared_intermediate_size |-> shared_size,
                    unified_intermediate_size |-> unified_size,
                    total_weights |-> Cardinality(DOMAIN mlx_weights),
                    padding_applied |-> (routed_size # unified_size)]
    /\ metadata_file' = "written"
    /\ exit_code' = 0
    /\ pc' = "exited"
    /\ UNCHANGED << input_file, disk_ckpt, state_dict, num_layers, num_experts,
                    routed_size, shared_size, unified_size, mlx_weights, mapped_count,
                    weights_file, config, error, verify_state, missing >>
    /\ UNCHANGED pad_vars

\* verify_mlx_weights.py, run on the weights file the remapper wrote
verify_weights ==
    /\ pc = "exited"
    /\ weights_file = "written"
    /\ verify_state = "idle"
    /\ IF config.status # "ok"
       THEN verify_state' = "error" /\ UNCHANGED missing
       ELSE /\ missing' = missing_of(required(config), mlx_weights)
            /\ verify_state' = IF missing' = <<>> THEN "True" ELSE "False"
    /\ UNCHANGED << pc, input_file, disk_ckpt, state_dict, num_layers, num_experts,
                    routed_size, shared_size, unified_size, mlx_weights, mapped_count,
                    weights_file, config, metadata_file, metadata, error, exit_code >>
    /\ UNCHANGED pad_vars

Next ==
    \/ Load
    \/ Detect
    \/ Remap
    \/ SaveWeights
    \/ UpdateConfig
    \/ SaveMetadata
    \/ verify_weights

Spec == Init /\ [][Next]_vars

----------------------------------------------------------------------------
(* What the specification calls things *)

\* the remap step completed: the destination mapping exists
Remapped == pc \in {"remapped", "saved", "configured"} \/ weights_file = "written"

\* layer_count(): max matched index of the keys h.<int>.*, plus one
layer_count(keys) ==
    LET idx == {ToInt(k[2]) : k \in {x \in keys : x[1] = "h"}}
    IN  IF idx = {} THEN 0 ELSE Max(idx) + 1

\* expert_count(layer): max matched index of the keys h.<layer>.mlp.experts.<int>.*, plus one
expert_count(keys, i) ==
    LET idx == {ToInt(k[5]) : k \in {x \in keys : /\ Len(x) > 5
                                                  /\ x[1] = "h" /\ x[2] = Str(i)
                                                  /\ x[3] = "mlp" /\ x[4] = "experts"}}
    IN  IF idx = {} THEN 0 ELSE Max(idx) + 1

\* the translations of one source key into one destination key
top_translations ==
    { <<wte, <<"model", "embed_tokens", "weight">>>>,
      <<ln_f, <<"model", "norm", "weight">>>>,
      <<lm_head, lm_head>> }

identity_translations(i) ==
    { <<prefix_old(i) \o t[1], prefix_new(i) \o t[2]>> :
        t \in { << <<"ln_1", "weight">>, <<"input_layernorm", "weight">> >>,
                << <<"ln_2", "weight">>, <<"post_attention_layernorm", "weight">> >>,
                << <<"attn", "q_proj", "weight">>, <<"self_attn", "q_a_proj", "weight">> >>,
                << <<"attn", "q_decompress", "weight">>, <<"self_attn", "q_b_proj", "weight">> >>,
                << <<"attn", "kv_norm", "weight">>, <<"self_attn", "kv_a_layernorm", "weight">> >>,
                << <<"attn", "o_proj", "weight">>, <<"self_attn", "o_proj", "weight">> >>,
                << <<"mlp", "router", "weight">>, <<"mlp", "gate", "weight">> >> } }

shared_translations(i) ==
    { <<shared_key(i, proj), prefix_new(i) \o <<"mlp", "shared_experts", proj, "weight">>>> :
        proj \in Projs }

switch_key(i, proj) == prefix_new(i) \o <<"mlp", "switch_mlp", proj, "weight">>

\* the experts of layer i whose key for proj is present, and the x-th of them (from 0)
present_experts(sd, i, proj) ==
    {j \in 0..(expert_count(DOMAIN sd, i) - 1) : expert_key(i, j, proj) \in DOMAIN sd}

nth_present(sd, i, proj, x) ==
    CHOOSE j \in present_experts(sd, i, proj) :
        Cardinality({y \in present_experts(sd, i, proj) : y < j}) = x

\* the element of the source tensor k at [r, c]
source_at(sd, k, r, c) == [src |-> k, pos |-> r * sd[k][2] + c]

----------------------------------------------------------------------------
(* C1: remap_weights never raises because of an absent source key: for any *)
(* subset of the catalogue's source keys the remap step completes, every   *)
(* translation whose source key is absent omits its destination key, and   *)
(* the mapped-count is not incremented for it (it counts the destination   *)
(* keys).                                                                  *)

C1_AbsentKeyNeverRaises ==
    /\ (input_file = "ok" /\ pc = "exited") => Remapped
    /\ Remapped =>
         /\ \A t \in top_translations \cup
                     UNION { identity_translations(i) \cup shared_translations(i) :
                               i \in 0..(layer_count(DOMAIN state_dict) - 1) } :
               t[1] \notin DOMAIN state_dict => t[2] \notin DOMAIN mlx_weights
         /\ mapped_count = Cardinality(DOMAIN mlx_weights)

(* C2: the destination contains layer keys model.layers.i.* for exactly    *)
(* the indices i in [0, L), and every stacked tensor                       *)
(* model.layers.i.mlp.switch_mlp.{gate,up,down}_proj.weight that is        *)
(* present has leading dimension E = expert_count(i).                      *)

C2_LayersAndExpertCount ==
    Remapped =>
      /\ {ToInt(k[3]) : k \in {x \in DOMAIN mlx_weights :
                                 Len(x) > 3 /\ x[1] = "model" /\ x[2] = "layers"}}
           = 0..(layer_count(DOMAIN state_dict) - 1)
      /\ \A i \in 0..(layer_count(DOMAIN state_dict) - 1) : \A proj \in Projs :
            switch_key(i, proj) \in DOMAIN mlx_weights =>
               mlx_weights[switch_key(i, proj)].shape[1] = expert_count(DOMAIN state_dict, i)

(* C3: unified_size = max(routed_size, shared_size); padding_applied iff   *)
(* routed_size < unified_size; and then every routed expert slice of the   *)
(* destination gate/up tensor has shape [unified_size, hidden] and of the  *)
(* down tensor [hidden, unified_size], equal to the source expert tensor   *)
(* on its index range and zero on the appended rows/columns.               *)

C3_slice_ok(i, proj, x) ==
    LET T == mlx_weights[switch_key(i, proj)]
        k == expert_key(i, nth_present(state_dict, i, proj, x), proj)
        hidden == state_dict[wte][2]
        want == IF proj = "down_proj" THEN <<hidden, unified_size>>
                ELSE <<unified_size, hidden>>
    IN  /\ <<T.shape[2], T.shape[3]>> = want
        /\ state_dict[k][1] <= want[1] /\ state_dict[k][2] <= want[2]
        /\ \A r \in 0..(want[1] - 1) : \A c \in 0..(want[2] - 1) :
              At3(T, x, r, c) = IF r < state_dict[k][1] /\ c < state_dict[k][2]
                                THEN source_at(state_dict, k, r, c)
                                ELSE Zero

C3_UnifiedSizeAndPadding ==
    /\ pc \notin {"start", "loaded"} /\ input_file = "ok" =>
          /\ unified_size = Maximum(routed_size, shared_size)
          /\ unified_size >= routed_size /\ unified_size >= shared_size
    /\ metadata_file = "written" /\ pc = "exited" /\ exit_code = 0 =>
          (metadata.padding_applied <=> routed_size < unified_size)
    /\ Remapped /\ routed_size < unified_size =>
          \A i \in 0..(num_layers - 1) : \A proj \in Projs :
             switch_key(i, proj) \in DOMAIN mlx_weights =>
                \A x \in 0..(mlx_weights[switch_key(i, proj)].shape[1] - 1) :
                   C3_slice_ok(i, proj, x)

(* C5: where the shared-expert keys are present, the shared expert tensors *)
(* of every layer have the unified size (leading dimension of gate_proj    *)
(* and up_proj, trailing dimension of down_proj), which is the             *)
(* intermediate dimension of the stacked routed tensors and the            *)
(* moe_intermediate_size written to the config.                            *)

C5_SharedExpertAtUnifiedSize ==
    Remapped =>
      \A i \in 0..(num_layers - 1) :
         /\ \A t \in shared_translations(i) :
               t[2] \in DOMAIN mlx_weights =>
                  mlx_weights[t[2]].shape[IF t[1][5] = "down_proj" THEN 2 ELSE 1] = unified_size
         /\ \A proj \in Projs :
               switch_key(i, proj) \in DOMAIN mlx_weights =>
                  mlx_weights[switch_key(i, proj)].shape[IF proj = "down_proj" THEN 3 ELSE 2]
                     = unified_size
         /\ pc = "configured" => config.moe_intermediate_size = unified_size

(* C4: pad_weight pads each axis of a rank-2 array independently by        *)
(* max(0, target dim - current dim) zeros at the high-index end: the call  *)
(* returns normally, each dimension of the result is max(current, target), *)
(* the original elements stay at their indices; the same for rank-1        *)
(* arrays; equal shapes and other ranks are returned unchanged.            *)

C4_PadWeightPadsEachAxis ==
    pad_pc \in {"returned", "raised"} =>
      LET a == pad_arg
          t == pad_target
          res == pad_result.val
      IN  /\ pad_result.err = "none"
          /\ Len(a.shape) = 2 =>
                /\ res.shape = <<Maximum(a.shape[1], t[1]), Maximum(a.shape[2], t[2])>>
                /\ \A r \in 0..(res.shape[1] - 1) : \A c \in 0..(res.shape[2] - 1) :
                      At2(res, r, c) = IF r < a.shape[1] /\ c < a.shape[2]
                                       THEN At2(a, r, c) ELSE Zero
          /\ Len(a.shape) = 1 =>
                /\ res.shape = <<Maximum(a.shape[1], t[1])>>
                /\ \A x \in 0..(res.shape[1] - 1) :
                      At1(res, x) = IF x < a.shape[1] THEN At1(a, x) ELSE Zero
          /\ Len(a.shape) \notin {1, 2} \/ a.shape = t =>
                res.shape = a.shape /\ res.data = a.data

(* C6: for a complete source checkpoint of L layers, verify_weights, run   *)
(* with num_hidden_layers = L on the destination and the config the        *)
(* remapper wrote, finds no key missing and returns True.                  *)

complete_keys(keys) ==
    /\ {wte, ln_f, lm_head} \subseteq keys
    /\ \A i \in 0..(layer_count(keys) - 1) :
          /\ expert_count(keys, i) >= 1
          /\ { prefix_old(i) \o sub : sub \in layer_subs(expert_count(keys, i)) } \subseteq keys

C6_CompleteSourceVerifies ==
    /\ verify_state # "idle"
    /\ config.status = "ok"
    /\ config.num_hidden_layers = layer_count(DOMAIN state_dict)
    /\ complete_keys(DOMAIN state_dict)
    => /\ config.n_shared_experts = 1
       /\ missing = <<>>
       /\ verify_state = "True"

C6_Witness ==
    /\ verify_state = "True"
    /\ complete_keys(DOMAIN state_dict)
    /\ layer_count(DOMAIN state_dict) = 2
    /\ config.num_hidden_layers = 2
    /\ routed_size < shared_size

(* C7: from a complete source checkpoint less exactly one per-layer        *)
(* identity-copy key (ln_1, ln_2, q_proj, q_decompress, kv_norm, o_proj or *)
(* router weight of a layer), remap_weights completes, the destination     *)
(* lacks exactly the corresponding key and holds every other catalogue     *)
(* key, and verify_weights' missing list is exactly that one key.          *)

catalogue(L) ==
    LET req == required([num_hidden_layers |-> L, n_shared_experts |-> 1])
    IN  {req[x] : x \in 1..Len(req)}

\* the translation whose source key alone is absent from the checkpoint
one_absent(keys) ==
    { t \in UNION { identity_translations(i) : i \in 0..(layer_count(keys) - 1) } :
        t[1] \notin keys /\ complete_keys(keys \cup {t[1]}) }

C7_OneMissingIdentityKey ==
    \A t \in one_absent(DOMAIN state_dict) :
       /\ pc = "exited" => Remapped
       /\ Remapped =>
             /\ t[2] \notin DOMAIN mlx_weights
             /\ catalogue(layer_count(DOMAIN state_dict)) \ {t[2]} \subseteq DOMAIN mlx_weights
       /\ verify_state # "idle" /\ config.status = "ok"
          /\ config.num_hidden_layers = layer_count(DOMAIN state_dict)
          => missing = <<t[2]>> /\ verify_state = "False"

C7_Witness ==
    /\ verify_state = "False"
    /\ missing = << <<"model", "layers", "0", "self_attn", "o_proj", "weight">> >>
    /\ one_absent(DOMAIN state_dict) # {}
    /\ layer_count(DOMAIN state_dict) = 2

(* C8: for k_decompress and v_decompress of shape                          *)
(* [NumHeads * HeadDim, KvLoraRank], kv_b_proj has                         *)
(* NumHeads * (NopeDim + HeadDim) rows; for every head h its rows          *)
(* [h*(NopeDim+HeadDim), +NopeDim) are the rows [h*HeadDim, +NopeDim) of   *)
(* k_decompress and the HeadDim rows after them are the rows               *)
(* [h*HeadDim, +HeadDim) of v_decompress.                                  *)

kv_b_key(i) == prefix_new(i) \o <<"self_attn", "kv_b_proj", "weight">>

k_key(i) == prefix_old(i) \o <<"attn", "k_decompress", "weight">>

v_key(i) == prefix_old(i) \o <<"attn", "v_decompress", "weight">>

C8_KvBProjInterleave ==
    Remapped =>
      \A i \in 0..(num_layers - 1) :
         k_key(i) \in DOMAIN state_dict /\ v_key(i) \in DOMAIN state_dict =>
            /\ kv_b_key(i) \in DOMAIN mlx_weights
            /\ LET T == mlx_weights[kv_b_key(i)]
                   per_head == NopeDim + HeadDim
               IN  /\ T.shape = <<NumHeads * per_head, KvLoraRank>>
                   /\ \A h \in 0..(NumHeads - 1) : \A c \in 0..(KvLoraRank - 1) :
                         /\ \A r \in 0..(NopeDim - 1) :
                               At2(T, h * per_head + r, c)
                                 = source_at(state_dict, k_key(i), h * HeadDim + r, c)
                         /\ \A r \in 0..(HeadDim - 1) :
                               At2(T, h * per_head + NopeDim + r, c)
                                 = source_at(state_dict, v_key(i), h * HeadDim + r, c)

C8_Witness ==
    /\ Remapped
    /\ num_layers = 2
    /\ kv_b_key(1) \in DOMAIN mlx_weights

(* C9: if the source checkpoint path does not exist, the run fails with    *)
(* the not-found error before any transform or write step (no weights      *)
(* file, config update or metadata file is produced or modified) and ends  *)
(* with exit code 1; a run in which no exception occurs ends with exit     *)
(* code 0.                                                                 *)

C9_NotFoundAbortsBeforeAnyWork ==
    /\ [](input_file = "missing" /\ pc = "exited" =>
             /\ error = "FileNotFoundError"
             /\ exit_code = 1
             /\ state_dict = <<>> /\ mlx_weights = <<>>
             /\ weights_file = "absent" /\ metadata_file = "absent")
    /\ [](input_file = "missing" => pc \in {"start", "exited"})
    /\ [](pc = "exited" => (exit_code = 0 <=> error = "none") /\ exit_code \in {0, 1})
    /\ [][input_file = "missing" => UNCHANGED <<weights_file, config, metadata_file>>]_vars

C9_Witness ==
    /\ input_file = "missing"
    /\ pc = "exited"
    /\ exit_code = 1
    /\ weights_file = "absent"
    /\ metadata_file = "absent"
    /\ config.status = "ok"

(* C10: the writer persists weights file, then config update, then         *)
(* metadata file, with no rollback: metadata written implies config        *)
(* updated (moe_intermediate_size = unified_size, n_shared_experts = 1),   *)
(* which implies weights file written; a missing or unparsable config.json *)
(* ends the run with exit code 1, the weights file written, the config     *)
(* unchanged and the metadata file not written.                            *)

config_updated ==
    /\ config.status = "ok"
    /\ config.moe_intermediate_size = unified_size
    /\ config.n_shared_experts = 1

C10_WriteOrderNoRollback ==
    /\ [](metadata_file = "written" => config_updated)
    /\ [](config.n_shared_experts = 1 => config_updated /\ weights_file = "written")
    /\ [](pc = "configured" => config_updated)
    /\ [](config.status # "ok" /\ pc = "exited" /\ Remapped =>
             /\ exit_code = 1
             /\ error \in {"FileNotFoundError", "JSONDecodeError"}
             /\ weights_file = "written"
             /\ metadata_file = "absent")
    /\ [][config.status # "ok" => config' = config]_vars

C10_Witness ==
    /\ pc = "exited"
    /\ config.status = "corrupt"
    /\ weights_file = "written"
    /\ metadata_file = "absent"
    /\ exit_code = 1

====
